---- MODULE Spec2Model ----
(***************************************************************************)
(* bashlog-mgr: the workspace registry of bashlog.  Every invocation of    *)
(* the program is one process that runs one handler against the shared    *)
(* directory ~/.bashlog-workspaces and exits.  Texts (names, file          *)
(* contents, arguments) are sequences of one-character strings.            *)
(***************************************************************************)
EXTENDS Integers, Sequences, FiniteSets, TLC

\* ------------------------------------------------------------------ bounds

\* largest clock value (seconds) the model reaches
MaxTime == 2
\* most lines the logging library appends to one history file under Spec
MaxHist == 1
\* most lines of a history file drawn by InitTail
MaxLines == 6

\* ------------------------------------------------------------- text helpers

NL == "\n"
Whitespace == {" ", NL, "\t"}
Digits == {"0", "1", "2", "3", "4", "5", "6", "7", "8", "9"}

DigitVal(c) ==
    CASE c = "0" -> 0 [] c = "1" -> 1 [] c = "2" -> 2 [] c = "3" -> 3
      [] c = "4" -> 4 [] c = "5" -> 5 [] c = "6" -> 6 [] c = "7" -> 7
      [] c = "8" -> 8 [] c = "9" -> 9

DigitChar(d) ==
    CASE d = 0 -> "0" [] d = 1 -> "1" [] d = 2 -> "2" [] d = 3 -> "3"
      [] d = 4 -> "4" [] d = 5 -> "5" [] d = 6 -> "6" [] d = 7 -> "7"
      [] d = 8 -> "8" [] d = 9 -> "9"

Tail2(s, i) == SubSeq(s, i, Len(s))

RECURSIVE TrimLeft(_)
TrimLeft(s) ==
    IF s # <<>> /\ Head(s) \in Whitespace THEN TrimLeft(Tail(s)) ELSE s

RECURSIVE TrimRight(_)
TrimRight(s) ==
    IF s # <<>> /\ s[Len(s)] \in Whitespace
    THEN TrimRight(SubSeq(s, 1, Len(s) - 1))
    ELSE s

\* strings.TrimSpace
TrimSpace(s) == TrimRight(TrimLeft(s))

\* strings.ToLower on the letters the confirmation answer can hold
LowerChar(c) ==
    CASE c = "Y" -> "y" [] c = "E" -> "e" [] c = "S" -> "s"
      [] c = "N" -> "n" [] c = "O" -> "o" [] OTHER -> c

ToLower(s) == [i \in 1..Len(s) |-> LowerChar(s[i])]

\* index of the first occurrence of character c in s, 0 when there is none
IndexOf(s, c) ==
    IF \E i \in 1..Len(s) : s[i] = c
    THEN CHOOSE i \in 1..Len(s) : s[i] = c /\ \A j \in 1..(i - 1) : s[j] # c
    ELSE 0

\* strings.Split(s, sep) for a one-character separator: never empty
RECURSIVE Split(_, _)
Split(s, sep) ==
    LET i == IndexOf(s, sep)
    IN  IF i = 0 THEN <<s>>
        ELSE <<SubSeq(s, 1, i - 1)>> \o Split(Tail2(s, i + 1), sep)

\* strings.SplitN(s, sep, 2)
SplitN2(s, sep) ==
    LET i == IndexOf(s, sep)
    IN  IF i = 0 THEN <<s>> ELSE <<SubSeq(s, 1, i - 1), Tail2(s, i + 1)>>

\* the bytes of a file made of the given lines, each ended by a newline
RECURSIVE Lines2Data(_)
Lines2Data(ls) ==
    IF ls = <<>> THEN <<>> ELSE Head(ls) \o <<NL>> \o Lines2Data(Tail(ls))

RECURSIVE DigitsValue(_, _)
DigitsValue(s, acc) ==
    IF s = <<>> THEN acc ELSE DigitsValue(Tail(s), 10 * acc + DigitVal(Head(s)))

\* the longest prefix of s made of decimal digits
RECURSIVE DigitPrefix(_)
DigitPrefix(s) ==
    IF s # <<>> /\ Head(s) \in Digits
    THEN <<Head(s)>> \o DigitPrefix(Tail(s))
    ELSE <<>>

RECURSIVE SkipBlanks(_)
SkipBlanks(s) ==
    IF s # <<>> /\ Head(s) \in {" ", "\t"} THEN SkipBlanks(Tail(s)) ELSE s

\* fmt.Sscanf(text, "%d", &v) with v holding dflt before the call: leading
\* spaces are skipped, an optional sign and the leading digits are read and
\* whatever follows them is ignored; with no digit v keeps dflt.
SscanfD(text, dflt) ==
    LET t == SkipBlanks(text)
        neg == t # <<>> /\ Head(t) = "-"
        signed == t # <<>> /\ Head(t) \in {"-", "+"}
        body == IF signed THEN Tail(t) ELSE t
        ds == DigitPrefix(body)
    IN  IF ds = <<>> THEN dflt
        ELSE IF neg THEN 0 - DigitsValue(ds, 0) ELSE DigitsValue(ds, 0)

\* ------------------------------------------------------------------- names

Lower == {"a", "b", "c", "d", "e", "f", "g", "h", "i", "j", "k", "l", "m",
          "n", "o", "p", "q", "r", "s", "t", "u", "v", "w", "x", "y", "z"}
Upper == {"A", "B", "C", "D", "E", "F", "G", "H", "I", "J", "K", "L", "M",
          "N", "O", "P", "Q", "R", "S", "T", "U", "V", "W", "X", "Y", "Z"}

MaxNameLen == 255

isValidName(name) ==
    /\ Len(name) # 0
    /\ Len(name) <= MaxNameLen
    /\ \A i \in 1..Len(name) : name[i] \in Lower \cup Upper \cup Digits \cup {"-", "_"}

\* the directory names of the model in the order os.ReadDir returns them
\* (sorted by file name)
DirOrder == << <<"a">>, <<"b">>, <<"c">> >>
WsNames == {DirOrder[i] : i \in 1..Len(DirOrder)}

\* the name arguments the commands are given: two valid names, the empty
\* string and the parent directory
NameInputs == { <<"a">>, <<"b">>, <<>>, <<".", ".">> }

configFile == <<"c", "o", "n", "f", "i", "g", ".", "t", "x", "t">>
historyFile == <<"h", "i", "s", "t", "o", "r", "y", ".", "l", "o", "g">>

\* filepath.Join(basePath, name), relative to basePath: `up` counts the
\* directories the cleaned path climbs above basePath, `comps` are the
\* components below that point.  Empty and "." components vanish and ".."
\* removes the component before it.
RECURSIVE CleanComps(_, _, _)
CleanComps(parts, up, comps) ==
    IF parts = <<>> THEN [up |-> up, comps |-> comps]
    ELSE LET c == Head(parts)
         IN  IF c = <<>> \/ c = <<".">>
             THEN CleanComps(Tail(parts), up, comps)
             ELSE IF c = <<".", ".">>
             THEN IF comps = <<>>
                  THEN CleanComps(Tail(parts), up + 1, comps)
                  ELSE CleanComps(Tail(parts), up, SubSeq(comps, 1, Len(comps) - 1))
             ELSE CleanComps(Tail(parts), up, Append(comps, c))

JoinBase(name) == CleanComps(Split(name, "/"), 0, <<>>)

\* ------------------------------------------------------------------- state

VARIABLES
    rootExists,     \* the directory ~/.bashlog-workspaces exists
    outsideIntact,  \* nothing of the home directory outside the store was removed
    ws,             \* per directory name: the directory and its two files
    now,            \* the wall clock, in seconds
    pc,             \* per process: where its handler stands
    arg,            \* per process: the name its handler works on
    out,            \* per process: what its last finished handler reported
    pre,            \* the store as the handler that started last found it
    lpc,            \* the session launcher: where its main stands
    sessionConfig,  \* the session launcher: the Config setupConfig returned
    logDirs,        \* the dates whose directory ~/.bashlog/logs/<date> exists
    rcFile,         \* the file ~/.bashlog/bashlog.rc
    child,          \* the shell the launcher's current run started
    lout            \* what the launcher's last run was given and how it ended

\* the state of the session launcher; the workspace manager never touches it
launcher == <<lpc, sessionConfig, logDirs, rcFile, child, lout>>

\* the state of the workspace manager; the session launcher never touches it
registry == <<rootExists, outsideIntact, ws, pc, arg, out, pre>>

vars == <<rootExists, outsideIntact, ws, now, pc, arg, out, pre,
          lpc, sessionConfig, logDirs, rcFile, child, lout>>

Procs == {1, 2}

NoFile == [present |-> FALSE, data |-> <<>>]
FileOf(text) == [present |-> TRUE, data |-> text]
NoDir == [dir |-> FALSE, cfg |-> NoFile, hist |-> NoFile]
EmptyDir == [dir |-> TRUE, cfg |-> NoFile, hist |-> NoFile]

Store == [root |-> rootExists, outside |-> outsideIntact, ws |-> ws]

\* StatOK as it would be if the existence test looked for the config record
\* of the workspace instead of its directory
StatOKConfigFile(path) ==
    IF path.up > 0 THEN path.comps = <<>>
    ELSE CASE Len(path.comps) = 0 -> rootExists
           [] Len(path.comps) = 1 ->
                 /\ path.comps[1] \in WsNames
                 /\ ws[path.comps[1]].dir
                 /\ ws[path.comps[1]].cfg.present
           [] OTHER -> FALSE

\* os.Stat(path) succeeds
StatOK(path) ==
    IF path.up > 0 THEN path.comps = <<>>
    ELSE CASE Len(path.comps) = 0 -> rootExists
           [] Len(path.comps) = 1 ->
                 path.comps[1] \in WsNames /\ ws[path.comps[1]].dir
           [] Len(path.comps) = 2 ->
                 /\ path.comps[1] \in WsNames
                 /\ ws[path.comps[1]].dir
                 /\ \/ path.comps[2] = configFile /\ ws[path.comps[1]].cfg.present
                    \/ path.comps[2] = historyFile /\ ws[path.comps[1]].hist.present
           [] OTHER -> FALSE

\* ------------------------------------------------------------ config codec

KeyName == <<"n", "a", "m", "e">>
KeyCreated == <<"c", "r", "e", "a", "t", "e", "d">>
KeyCommands == <<"c", "o", "m", "m", "a", "n", "d", "s">>

\* time.Time.Format(time.RFC3339): the instant t as text
FormatRFC3339(t) == <<"T", DigitChar(t)>>

\* time.Parse(time.RFC3339, text), its error dropped: any text that is not
\* exactly a formatted instant gives the zero time
ParseRFC3339(text) ==
    IF Len(text) = 2 /\ text[1] = "T" /\ text[2] \in Digits
    THEN DigitVal(text[2])
    ELSE 0

\* readConfig followed by the lookup config[key]: the value of the last
\* line "key=value" of the file, the empty text when the file cannot be read
\* or no line has the key
ConfigGet(file, key) ==
    LET lines == Split(file.data, NL)
        parts(i) == SplitN2(lines[i], "=")
        hits == {i \in 1..Len(lines) :
                    Len(parts(i)) = 2 /\ TrimSpace(parts(i)[1]) = key}
    IN  IF ~file.present \/ hits = {} THEN <<>>
        ELSE LET last == CHOOSE i \in hits : \A j \in hits : j <= i
             IN  TrimSpace(parts(last)[2])

\* the config record handleCreate or the logging library writes
ConfigText(name, created, commands) ==
    KeyName \o <<"=">> \o name \o <<NL>>
    \o KeyCreated \o <<"=">> \o created \o <<NL>>
    \o KeyCommands \o <<"=">> \o commands \o <<NL>>

\* ---------------------------------------------------------------- registry

WorkspaceOf(n) ==
    [Name |-> n,
     Path |-> JoinBase(n).comps,
     CreatedAt |-> ParseRFC3339(ConfigGet(ws[n].cfg, KeyCreated)),
     CommandCount |-> SscanfD(ConfigGet(ws[n].cfg, KeyCommands), 0)]

\* a.After(b), a.Before(b)
After(a, b) == a > b
Before(a, b) == a < b

\* the directory entries of basePath that are directories, in ReadDir order
Entries == SelectSeq(DirOrder, LAMBDA n : ws[n].dir)

Perms(S) == {f \in [1..Cardinality(S) -> S] : \A x \in S : \E i \in DOMAIN f : f[i] = x}

\* sort.Slice(workspaces, less) with less(i, j) = CreatedAt[i].After(CreatedAt[j]):
\* the sort is not stable, so every arrangement of the records that the
\* comparison accepts is a possible result
SortedNewestFirst(recs) ==
    {[i \in 1..Len(recs) |-> recs[p[i]]] : p \in
       {q \in Perms(1..Len(recs)) :
           \A i, j \in 1..Len(recs) :
               i < j => ~After(recs[q[j]].CreatedAt, recs[q[i]].CreatedAt)}}

\* the loop over the entries: one Workspace appended per directory
RECURSIVE LoadAll(_)
LoadAll(names) ==
    IF names = <<>> THEN <<>>
    ELSE <<WorkspaceOf(Head(names))>> \o LoadAll(Tail(names))

\* the results getWorkspaces can return (a missing basePath is no error)
getWorkspaces ==
    IF ~rootExists THEN {<<>>}
    ELSE LET workspaces == LoadAll(Entries)
         IN  SortedNewestFirst(workspaces)

\* ------------------------------------------------------------ file system

\* the file `fname` of the directory at `path`, as os.ReadFile finds it
ReadFileAt(path, fname) ==
    IF path.up = 0 /\ Len(path.comps) = 1 /\ path.comps[1] \in WsNames
       /\ ws[path.comps[1]].dir
    THEN IF fname = configFile THEN ws[path.comps[1]].cfg
         ELSE IF fname = historyFile THEN ws[path.comps[1]].hist
         ELSE NoFile
    ELSE NoFile

AllGone == [n \in WsNames |-> NoDir]

\* the store after os.RemoveAll(path) has removed everything it was asked to
\* (a path that does not exist is no error and changes nothing)
RemoveAll(path) ==
    IF path.up > 0
    THEN IF path.comps = <<>>
         THEN [root |-> FALSE, outside |-> FALSE, ws |-> AllGone]
         ELSE Store
    ELSE CASE Len(path.comps) = 0 ->
                 [root |-> FALSE, outside |-> outsideIntact, ws |-> AllGone]
           [] Len(path.comps) = 1 /\ path.comps[1] \in WsNames ->
                 [Store EXCEPT !.ws[path.comps[1]] = NoDir]
           [] Len(path.comps) = 2 /\ path.comps[1] \in WsNames
                 /\ path.comps[2] = configFile ->
                 [Store EXCEPT !.ws[path.comps[1]].cfg = NoFile]
           [] Len(path.comps) = 2 /\ path.comps[1] \in WsNames
                 /\ path.comps[2] = historyFile ->
                 [Store EXCEPT !.ws[path.comps[1]].hist = NoFile]
           [] OTHER -> Store

\* the stores os.RemoveAll(path) can leave when it fails: nothing removed,
\* or the files below the path removed and its directories left
RemoveAllFailed(path) ==
    {Store} \cup
    IF path.up = 0 /\ Len(path.comps) = 0
    THEN {[Store EXCEPT !.ws = [n \in WsNames |->
                                  IF ws[n].dir THEN EmptyDir ELSE NoDir]]}
    ELSE IF path.up = 0 /\ Len(path.comps) = 1 /\ path.comps[1] \in WsNames
            /\ ws[path.comps[1]].dir
    THEN {[Store EXCEPT !.ws[path.comps[1]] = EmptyDir]}
    ELSE {}

SetStore(st) ==
    /\ rootExists' = st.root
    /\ outsideIntact' = st.outside
    /\ ws' = st.ws

\* ----------------------------------------------------------------- reports

NoStats == [workspaces |-> 0, commands |-> 0, average |-> 0,
            oldest |-> <<>>, newest |-> <<>>]

\* what a finished handler printed and how it exited (status "running": the
\* handler has not finished).  afterCreate and raced record the history the
\* report came about in: a view right after a create, a create that passed
\* its existence check while another create of the same name had passed it
\* and not yet made the directory.
NoOut == [cmd |-> "none", name |-> <<>>, status |-> "none", exit |-> 0,
          created |-> <<>>, commands |-> <<>>, header |-> FALSE,
          shown |-> <<>>, linesArg |-> <<>>, lines |-> 0, recs |-> <<>>, stats |-> NoStats,
          answer |-> <<>>, afterCreate |-> FALSE, raced |-> FALSE]

Report(c, name, status, exit) ==
    [NoOut EXCEPT !.cmd = c, !.name = name, !.status = status, !.exit = exit]

NoPre == [root |-> FALSE, outside |-> TRUE, ws |-> AllGone]

Idle == \A p \in Procs : pc[p] = "idle"

Finish(p, o) ==
    /\ out' = [out EXCEPT ![p] = o]
    /\ pc' = [pc EXCEPT ![p] = "idle"]
    /\ arg' = [arg EXCEPT ![p] = <<>>]

\* the argument lists a command is started with: none, or one name
ArgInputs == {<<>>} \cup {<<n>> : n \in NameInputs}

\* ------------------------------------------------------------ handleCreate

\* the processes whose create of this name has passed the existence check
\* and has not yet made the directory
Rivals(p, name) == {q \in Procs \ {p} : pc[q] = "mkdir" /\ arg[q] = name}

\* the report of a create that ends, successfully or not
CreateReport(p, status, exit) ==
    [Report("create", arg[p], status, exit) EXCEPT !.raced = out[p].raced]

\* argument check, isValidName and the os.Stat existence check
CreateBegin(p, args) ==
    /\ UNCHANGED launcher
    /\ pc[p] = "idle"
    /\ pre' = Store
    /\ UNCHANGED <<rootExists, outsideIntact, ws, now>>
    /\ IF Len(args) = 0
       THEN Finish(p, Report("create", <<>>, "Usage", 1))
       ELSE IF ~isValidName(args[1])
       THEN Finish(p, Report("create", args[1], "InvalidName", 1))
       ELSE IF StatOK(JoinBase(args[1]))
       THEN Finish(p, Report("create", args[1], "AlreadyExists", 1))
       ELSE /\ pc' = [pc EXCEPT ![p] = "mkdir"]
            /\ arg' = [arg EXCEPT ![p] = args[1]]
            /\ out' = [q \in Procs |->
                         IF q = p
                         THEN [Report("create", args[1], "running", 0) EXCEPT
                                 !.raced = Rivals(p, args[1]) # {}]
                         ELSE IF q \in Rivals(p, args[1])
                         THEN [out[q] EXCEPT !.raced = TRUE]
                         ELSE out[q]]

\* os.MkdirAll(wsPath): creates basePath and the directory; a directory that
\* is already there is no error
MkdirAll(n) == [Store EXCEPT !.root = TRUE, !.ws[n].dir = TRUE]

CreateMkdir(p) ==
    /\ UNCHANGED launcher
    /\ pc[p] = "mkdir"
    /\ UNCHANGED <<now, pre>>
    /\ \/ /\ SetStore(MkdirAll(arg[p]))
          /\ pc' = [pc EXCEPT ![p] = "config"]
          /\ UNCHANGED <<arg, out>>
       \/ /\ \E r \in {rootExists, TRUE} :
                SetStore([Store EXCEPT !.root = r])
          /\ Finish(p, CreateReport(p, "IOFailure", 1))

\* os.WriteFile(path, data): the outcomes are the file written, the file not
\* opened (nothing changes) and the file opened, truncated and not written
WriteOutcomes == {"written", "notOpened", "truncated"}

\* NewConfig as it would be if create counted itself as a logged command
NewConfigCounted(name, t) == ConfigText(name, FormatRFC3339(t), <<"1">>)

\* the config record written at time t
NewConfig(name, t) == ConfigText(name, FormatRFC3339(t), <<"0">>)

CreateWriteConfig(p) ==
    /\ UNCHANGED launcher
    /\ pc[p] = "config"
    /\ UNCHANGED <<rootExists, outsideIntact, now, pre>>
    /\ IF ~ws[arg[p]].dir
       THEN /\ UNCHANGED ws
            /\ Finish(p, CreateReport(p, "IOFailure", 1))
       ELSE \E o \in WriteOutcomes :
              CASE o = "written" ->
                     /\ ws' = [ws EXCEPT ![arg[p]].cfg = FileOf(NewConfig(arg[p], now))]
                     /\ pc' = [pc EXCEPT ![p] = "history"]
                     /\ UNCHANGED <<arg, out>>
                [] o = "notOpened" ->
                     /\ UNCHANGED ws
                     /\ Finish(p, CreateReport(p, "IOFailure", 1))
                [] o = "truncated" ->
                     /\ ws' = [ws EXCEPT ![arg[p]].cfg = FileOf(<<>>)]
                     /\ Finish(p, CreateReport(p, "IOFailure", 1))

CreateWriteHistory(p) ==
    /\ UNCHANGED launcher
    /\ pc[p] = "history"
    /\ UNCHANGED <<rootExists, outsideIntact, now, pre>>
    /\ IF ~ws[arg[p]].dir
       THEN /\ UNCHANGED ws
            /\ Finish(p, CreateReport(p, "IOFailure", 1))
       ELSE \E o \in WriteOutcomes :
              CASE o = "written" ->
                     /\ ws' = [ws EXCEPT ![arg[p]].hist = FileOf(<<>>)]
                     /\ Finish(p, CreateReport(p, "ok", 0))
                [] o = "notOpened" ->
                     /\ UNCHANGED ws
                     /\ Finish(p, CreateReport(p, "IOFailure", 1))
                [] o = "truncated" ->
                     /\ ws' = [ws EXCEPT ![arg[p]].hist = FileOf(<<>>)]
                     /\ Finish(p, CreateReport(p, "IOFailure", 1))

\* ------------------------------------------------------------ handleDelete

\* argument check and the os.Stat existence check; the name is not validated
DeleteBegin(p, args) ==
    /\ UNCHANGED launcher
    /\ pc[p] = "idle"
    /\ pre' = Store
    /\ UNCHANGED <<rootExists, outsideIntact, ws, now>>
    /\ IF Len(args) = 0
       THEN Finish(p, Report("delete", <<>>, "Usage", 1))
       ELSE IF ~StatOK(JoinBase(args[1]))
       THEN Finish(p, Report("delete", args[1], "NotFound", 1))
       ELSE /\ pc' = [pc EXCEPT ![p] = "confirm"]
            /\ arg' = [arg EXCEPT ![p] = args[1]]
            /\ out' = [out EXCEPT ![p] = Report("delete", args[1], "running", 0)]

\* the answers read from standard input: a line up to its newline, or what
\* was there when the input ended
Responses ==
    { <<"y", NL>>, <<" ", "Y", "E", "S", " ", NL>>,
      <<"n", "o", NL>>, <<"y", "e", NL>>, <<NL>>, <<>> }

\* IsAffirmative as it would be if any answer starting with y were taken
IsAffirmativePrefix(response) ==
    LET r == TrimSpace(ToLower(response))
    IN  r # <<>> /\ Head(r) = "y"

\* response != "yes" && response != "y" is false
IsAffirmative(response) ==
    LET r == TrimSpace(ToLower(response))
    IN  r = <<"y", "e", "s">> \/ r = <<"y">>

\* the report of a delete that got the answer `response`
DeleteReport(p, response, status, exit) ==
    [Report("delete", arg[p], status, exit) EXCEPT !.answer = response]

\* the confirmation read and, on an affirmative answer, os.RemoveAll(wsPath)
DeleteConfirm(p, response) ==
    /\ UNCHANGED launcher
    /\ pc[p] = "confirm"
    /\ UNCHANGED <<now, pre>>
    /\ IF ~IsAffirmative(response)
       THEN /\ UNCHANGED <<rootExists, outsideIntact, ws>>
            /\ Finish(p, DeleteReport(p, response, "Cancelled", 0))
       ELSE \/ /\ SetStore(RemoveAll(JoinBase(arg[p])))
               /\ Finish(p, DeleteReport(p, response, "ok", 0))
            \/ /\ \E st \in RemoveAllFailed(JoinBase(arg[p])) : SetStore(st)
               /\ Finish(p, DeleteReport(p, response, "IOFailure", 1))

\* -------------------------------------------------------------- handleView

ViewTail == 5

\* the lines handleView prints under "Recent Commands (last 5)": the
\* non-empty ones among the last five elements of the split text
ViewShown(data) ==
    LET lines == Split(TrimSpace(data), NL)
        count == Len(lines)
        start == IF count - ViewTail < 0 THEN 0 ELSE count - ViewTail
    IN  IF count > 0 /\ lines[1] # <<>>
        THEN SelectSeq(SubSeq(lines, start + 1, count), LAMBDA l : l # <<>>)
        ELSE <<>>

\* "Recent Commands (last 5):" is printed
ViewHeader(data) ==
    LET lines == Split(TrimSpace(data), NL)
    IN  Len(lines) > 0 /\ lines[1] # <<>>

\* the previous event of process p was its successful create of this name
JustCreated(p, name) ==
    out[p].cmd = "create" /\ out[p].status = "ok" /\ out[p].name = name

View(p, args) ==
    /\ UNCHANGED launcher
    /\ pc[p] = "idle"
    /\ pre' = Store
    /\ UNCHANGED <<rootExists, outsideIntact, ws, now>>
    /\ IF Len(args) = 0
       THEN Finish(p, Report("view", <<>>, "Usage", 1))
       ELSE IF ~StatOK(JoinBase(args[1]))
       THEN Finish(p, Report("view", args[1], "NotFound", 1))
       ELSE LET path == JoinBase(args[1])
                config == ReadFileAt(path, configFile)
                history == ReadFileAt(path, historyFile)
            IN  Finish(p, [Report("view", args[1], "ok", 0) EXCEPT
                             !.created = ConfigGet(config, KeyCreated),
                             !.commands = ConfigGet(config, KeyCommands),
                             !.header = history.present /\ ViewHeader(history.data),
                             !.shown = IF history.present
                                       THEN ViewShown(history.data) ELSE <<>>,
                             !.afterCreate = JustCreated(p, args[1])])

\* ----------------------------------------------------------- handleHistory

DefaultLines == 20

\* the optional second argument: lines keeps its default when the argument
\* is absent or holds no number
LinesArg(args) ==
    IF Len(args) > 1 THEN SscanfD(args[2], DefaultLines) ELSE DefaultLines

\* start := len(historyLines) - lines, raised to 0 when negative
HistoryStart(len, lines) == IF len - lines < 0 THEN 0 ELSE len - lines

\* historyLines[start:] with its empty lines skipped by the print loop
HistoryShown(data, lines) ==
    LET historyLines == Split(TrimSpace(data), NL)
        start == HistoryStart(Len(historyLines), lines)
    IN  SelectSeq(SubSeq(historyLines, start + 1, Len(historyLines)),
                  LAMBDA l : l # <<>>)

\* historyLines[start:] is out of range: the Go runtime panics, exit status 2
HistoryPanics(data, lines) ==
    HistoryStart(Len(Split(TrimSpace(data), NL)), lines) > Len(Split(TrimSpace(data), NL))

\* the second arguments history is started with: none, or a count as text
LineInputs == { <<>>, <<"0">>, <<"1">>, <<"2">>, <<"5">>, <<"-", "1">>, <<"x">> }

HistoryArgs == ArgInputs \cup
    {<<n, l>> : n \in {<<"a">>}, l \in LineInputs \ {<<>>}}

History(p, args) ==
    /\ UNCHANGED launcher
    /\ pc[p] = "idle"
    /\ pre' = Store
    /\ UNCHANGED <<rootExists, outsideIntact, ws, now>>
    /\ IF Len(args) = 0
       THEN Finish(p, Report("history", <<>>, "Usage", 1))
       ELSE IF ~StatOK(JoinBase(args[1]))
       THEN Finish(p, Report("history", args[1], "NotFound", 1))
       ELSE LET file == ReadFileAt(JoinBase(args[1]), historyFile)
                lines == LinesArg(args)
                r(status, exit) ==
                    [Report("history", args[1], status, exit) EXCEPT
                       !.lines = lines,
                       !.linesArg = IF Len(args) > 1 THEN args[2] ELSE <<>>]
            IN  IF ~file.present
                THEN Finish(p, r("IOFailure", 1))
                ELSE IF Len(file.data) = 0
                THEN Finish(p, r("NoHistory", 0))
                ELSE IF HistoryPanics(file.data, lines)
                THEN Finish(p, r("Panic", 2))
                ELSE Finish(p, [r("ok", 0) EXCEPT
                                  !.header = TRUE,
                                  !.shown = HistoryShown(file.data, lines)])

\* ------------------------------------------------- handleList, handleStats

List(p) ==
    /\ UNCHANGED launcher
    /\ pc[p] = "idle"
    /\ pre' = Store
    /\ UNCHANGED <<rootExists, outsideIntact, ws, now>>
    /\ \E workspaces \in getWorkspaces :
          IF Len(workspaces) = 0
          THEN Finish(p, Report("list", <<>>, "Empty", 0))
          ELSE Finish(p, [Report("list", <<>>, "ok", 0) EXCEPT !.recs = workspaces])

RECURSIVE SumCommands(_)
SumCommands(recs) ==
    IF recs = <<>> THEN 0 ELSE Head(recs).CommandCount + SumCommands(Tail(recs))

\* the scan for the oldest workspace: a record replaces the current one only
\* when it is strictly older
RECURSIVE ScanOldest(_, _)
ScanOldest(recs, cur) ==
    IF recs = <<>> THEN cur
    ELSE ScanOldest(Tail(recs),
                    IF Before(Head(recs).CreatedAt, cur.CreatedAt) THEN Head(recs) ELSE cur)

RECURSIVE ScanNewest(_, _)
ScanNewest(recs, cur) ==
    IF recs = <<>> THEN cur
    ELSE ScanNewest(Tail(recs),
                    IF After(Head(recs).CreatedAt, cur.CreatedAt) THEN Head(recs) ELSE cur)

\* float64(totalCommands)/float64(len(workspaces)) as "%.2f" prints it, in
\* hundredths (no quotient of fewer than eight workspaces is a rounding tie)
Average(total, n) == (200 * total + n) \div (2 * n)

StatsOf(workspaces) ==
    [workspaces |-> Len(workspaces),
     commands |-> SumCommands(workspaces),
     average |-> Average(SumCommands(workspaces), Len(workspaces)),
     oldest |-> ScanOldest(workspaces, workspaces[1]).Name,
     newest |-> ScanNewest(workspaces, workspaces[1]).Name]

Stats(p) ==
    /\ UNCHANGED launcher
    /\ pc[p] = "idle"
    /\ pre' = Store
    /\ UNCHANGED <<rootExists, outsideIntact, ws, now>>
    /\ \E workspaces \in getWorkspaces :
          IF Len(workspaces) = 0
          THEN Finish(p, Report("stats", <<>>, "Empty", 0))
          ELSE Finish(p, [Report("stats", <<>>, "ok", 0) EXCEPT
                            !.recs = workspaces, !.stats = StatsOf(workspaces)])

\* ------------------------------------------------------------- environment

EnvOut == [p \in Procs |-> [NoOut EXCEPT !.cmd = "env"]]

\* the lines the logging library appends under Spec
HistLines == { <<"x">> }

CountNL(data) == Cardinality({i \in 1..Len(data) : data[i] = NL})

\* the logging library appends one line to a workspace's history
AppendHistory(n, line) ==
    /\ UNCHANGED launcher
    /\ Idle
    /\ ws[n].dir /\ ws[n].hist.present
    /\ CountNL(ws[n].hist.data) < MaxHist
    /\ ws' = [ws EXCEPT ![n].hist = FileOf(ws[n].hist.data \o line \o <<NL>>)]
    /\ out' = EnvOut
    /\ pre' = NoPre
    /\ UNCHANGED <<rootExists, outsideIntact, now, pc, arg>>

\* a second passes
Tick ==
    /\ UNCHANGED launcher
    /\ now < MaxTime
    /\ now' = now + 1
    /\ UNCHANGED <<rootExists, outsideIntact, ws, pc, arg, out, pre>>

\* ------------------------------------------------------- session launcher

\* the length of a day, in seconds of the model's clock
DayLen == 2

UTC == <<"U", "T", "C">>
Japan == <<"J", "a", "p", "a", "n">>

\* the zones of the time zone database and their offsets from UTC
ZoneOffset(tz) == IF tz = Japan THEN 1 ELSE 0

\* time.LoadLocation(tz): the empty name and "UTC" are UTC, a name of the
\* time zone database is its zone, every other name is an error
LoadLocation(tz) ==
    IF tz \in {<<>>, UTC, Japan}
    THEN [ok |-> TRUE, offset |-> ZoneOffset(tz)]
    ELSE [ok |-> FALSE, offset |-> 0]

\* time.Now().In(loc).Format("2006-01-02")
FormatDate(t, loc) == <<"D", DigitChar((t + loc.offset) \div DayLen)>>

\* time.Now().In(loc).Format("15:04:05")
FormatTime(t, loc) == <<"H", DigitChar((t + loc.offset) % DayLen)>>

\* fmt.Sprintf("session_%s_%s", date, time)
SessionIDOf(date, timeStr) == <<"s", "_">> \o date \o <<"_">> \o timeStr

\* the values of the flags -tz, -date and -time (empty: the flag is not given)
TzInputs == { <<>>, UTC, Japan, <<"M", "a", "r", "s">> }
DateInputs == { <<>>, <<"D", "9">> }
TimeInputs == { <<>>, <<"H", "9">> }

NoConfig == [set |-> FALSE, Timezone |-> <<>>, Date |-> <<>>, Time |-> <<>>,
             LogDir |-> <<>>, SessionID |-> <<>>]

NoChild == [state |-> "none", code |-> 0, count |-> 0, shell |-> <<>>,
            SessionID |-> <<>>, LogFile |-> <<>>, Timezone |-> <<>>]

\* what a run of the launcher was given, the log directories it found, and
\* how it ended (status "running": main has not ended)
NoLout == [status |-> "none", exit |-> 0, tz |-> <<>>, date |-> <<>>,
           time |-> <<>>, preLogDirs |-> {}, at |-> 0]

\* log.Fatalf: the run ends with exit status 1
Fatal(status) ==
    /\ lout' = [lout EXCEPT !.status = status, !.exit = 1]
    /\ lpc' = "idle"

\* filepath.Join(homeDir, ".bashlog", "logs", date), below ~/.bashlog
LogDirOf(date) == <<"l", "o", "g", "s", "/">> \o date

\* setupConfig, called by main with the values of the three flags: the zone
\* is loaded only where the date or the time has to be filled in
setupConfig(tz, date, timeStr) ==
    /\ lpc = "idle"
    /\ UNCHANGED <<registry, now, rcFile>>
    /\ child' = NoChild
    /\ LET given == [NoLout EXCEPT !.tz = tz, !.date = date, !.time = timeStr,
                                   !.preLogDirs = logDirs, !.at = now]
           zone == IF tz = <<>> THEN UTC ELSE tz
           loc == LoadLocation(zone)
           d == IF date = <<>> THEN FormatDate(now, loc) ELSE date
           t == IF timeStr = <<>> THEN FormatTime(now, loc) ELSE timeStr
           failed(status) ==
               /\ lout' = [given EXCEPT !.status = status, !.exit = 1]
               /\ lpc' = "idle"
               /\ sessionConfig' = NoConfig
               /\ UNCHANGED logDirs
       IN  IF (date = <<>> \/ timeStr = <<>>) /\ ~loc.ok
           THEN failed("InvalidTimezone")
           ELSE \/ failed("IOFailure")
                \/ /\ logDirs' = logDirs \cup {d}
                   /\ sessionConfig' = [set |-> TRUE, Timezone |-> zone, Date |-> d,
                                        Time |-> t, LogDir |-> LogDirOf(d),
                                        SessionID |-> SessionIDOf(d, t)]
                   /\ lout' = [given EXCEPT !.status = "running"]
                   /\ lpc' = "rc"

NoRC == [present |-> FALSE, Generated |-> 0, Timezone |-> <<>>, LogDir |-> <<>>,
         SessionID |-> <<>>, HistFile |-> <<>>]

\* the exports createRCFile renders
RCContent(c, t) ==
    [present |-> TRUE, Generated |-> t, Timezone |-> c.Timezone,
     LogDir |-> c.LogDir, SessionID |-> c.SessionID,
     HistFile |-> c.LogDir \o <<"/", ".", "b", "a", "s", "h", "_",
                                "h", "i", "s", "t", "o", "r", "y">>]

\* createRCFile: the one shared RC file is overwritten
createRCFile ==
    /\ lpc = "rc"
    /\ UNCHANGED <<registry, now, sessionConfig, logDirs, child>>
    /\ \E o \in WriteOutcomes :
         CASE o = "written" ->
                /\ rcFile' = RCContent(sessionConfig, now)
                /\ lpc' = "shell"
                /\ UNCHANGED lout
           [] o = "notOpened" ->
                /\ UNCHANGED rcFile
                /\ Fatal("IOFailure")
           [] o = "truncated" ->
                /\ rcFile' = [NoRC EXCEPT !.present = TRUE]
                /\ Fatal("IOFailure")

\* the values of the environment variable SHELL
ShellEnv == { <<>>, <<"z", "s", "h">> }

\* the exit codes of a shell that exits
ExitCodes == {0, 1, 2}

\* runShell up to the start of the child by cmd.Run: the shell of the
\* environment or /bin/bash, with three variables added to the environment
runShellStart(shellEnv) ==
    /\ lpc = "shell"
    /\ UNCHANGED <<registry, now, sessionConfig, logDirs, rcFile>>
    /\ LET shell == IF shellEnv = <<>> THEN <<"b", "a", "s", "h">> ELSE shellEnv
           logFile == sessionConfig.LogDir \o <<"/", "s", "_">>
                         \o sessionConfig.Time \o <<".", "l", "o", "g">>
       IN  \/ /\ UNCHANGED child
              /\ Fatal("LaunchFailure")
           \/ /\ child' = [state |-> "running", code |-> 0,
                           count |-> child.count + 1, shell |-> shell,
                           SessionID |-> sessionConfig.SessionID,
                           LogFile |-> logFile,
                           Timezone |-> sessionConfig.Timezone]
              /\ lpc' = "wait"
              /\ UNCHANGED lout

\* the child shell ends: it exits with a code or a signal kills it
ChildEnds ==
    /\ child.state = "running"
    /\ UNCHANGED <<registry, now, lpc, sessionConfig, logDirs, rcFile, lout>>
    /\ \/ \E c \in ExitCodes : child' = [child EXCEPT !.state = "exited", !.code = c]
       \/ child' = [child EXCEPT !.state = "signaled"]

\* cmd.Run returns once the child has ended, with an error unless the child
\* exited with code 0; main ends with log.Fatalf on the error and by
\* returning otherwise
runShellWait ==
    /\ lpc = "wait"
    /\ child.state \in {"exited", "signaled"}
    /\ UNCHANGED <<registry, now, sessionConfig, logDirs, rcFile, child>>
    /\ IF child.state = "exited" /\ child.code = 0
       THEN /\ lout' = [lout EXCEPT !.status = "ok", !.exit = 0]
            /\ lpc' = "idle"
       ELSE Fatal("LaunchFailure")

InitLauncher ==
    /\ lpc = "idle"
    /\ sessionConfig = NoConfig
    /\ logDirs = {}
    /\ rcFile = NoRC
    /\ child = NoChild
    /\ lout = NoLout

\* ----------------------------------------------------------- specification

Init ==
    /\ InitLauncher
    /\ rootExists = FALSE
    /\ outsideIntact = TRUE
    /\ ws = AllGone
    /\ now = 1
    /\ pc = [p \in Procs |-> "idle"]
    /\ arg = [p \in Procs |-> <<>>]
    /\ out = [p \in Procs |-> NoOut]
    /\ pre = NoPre

\* the life of the store, one invocation at a time: process 1 runs create,
\* delete, view and list to their ends while the logging library writes
Next ==
    \/ \E args \in ArgInputs : CreateBegin(1, args)
    \/ CreateMkdir(1)
    \/ CreateWriteConfig(1)
    \/ CreateWriteHistory(1)
    \/ \E args \in ArgInputs : DeleteBegin(1, args)
    \/ \E r \in Responses : DeleteConfirm(1, r)
    \/ \E args \in ArgInputs : View(1, args)
    \/ List(1)
    \/ \E n \in WsNames, l \in HistLines : AppendHistory(n, l)
    \/ Tick

Spec == Init /\ [][Next]_vars

\* two invocations at a time: create and delete of two processes interleave
\* at their system calls
NamesRace == { <<"a">>, <<"b">> }

NextRace ==
    \/ \E p \in Procs, n \in NamesRace : CreateBegin(p, <<n>>)
    \/ \E p \in Procs : CreateMkdir(p)
    \/ \E p \in Procs : CreateWriteConfig(p)
    \/ \E p \in Procs : CreateWriteHistory(p)
    \/ \E p \in Procs, n \in NamesRace : DeleteBegin(p, <<n>>)
    \/ \E p \in Procs, r \in Responses : DeleteConfirm(p, r)
    \/ Tick

SpecRace == Init /\ [][NextRace]_vars

\* list and stats over the stores the program can be left with: every
\* directory absent or present, its config record absent, written by create
\* and the logging library, or damaged
MaxStamp == 3

CreatedTexts == {FormatRFC3339(t) : t \in 1..MaxStamp} \cup { <<"b", "a", "d">> }
CommandTexts == { <<"2">>, <<"4">>, <<"6">>, <<"3", "x">>, <<"x">> }

QueryDirs(n) ==
    {NoDir, [dir |-> TRUE, cfg |-> NoFile, hist |-> FileOf(<<>>)]} \cup
    {[dir |-> TRUE, cfg |-> FileOf(ConfigText(n, c, k)), hist |-> FileOf(<<>>)] :
        c \in CreatedTexts, k \in CommandTexts}

InitQuery ==
    /\ InitLauncher
    /\ \E d1 \in QueryDirs(DirOrder[1]), d2 \in QueryDirs(DirOrder[2]),
          d3 \in QueryDirs(DirOrder[3]) :
          ws = [n \in WsNames |->
                  IF n = DirOrder[1] THEN d1
                  ELSE IF n = DirOrder[2] THEN d2 ELSE d3]
    /\ rootExists \in {r \in BOOLEAN : (\E n \in WsNames : ws[n].dir) => r}
    /\ outsideIntact = TRUE
    /\ now = MaxTime
    /\ pc = [p \in Procs |-> "idle"]
    /\ arg = [p \in Procs |-> <<>>]
    /\ out = [p \in Procs |-> NoOut]
    /\ pre = NoPre

NextQuery ==
    \/ List(1)
    \/ Stats(1)

SpecQuery == InitQuery /\ [][NextQuery]_vars

\* view and history over the history files the logging library can leave
TailLines == { <<"x">>, <<"y">>, <<>> }

RECURSIVE SeqsUpTo(_, _)
SeqsUpTo(S, n) ==
    IF n = 0 THEN {<<>>}
    ELSE LET shorter == SeqsUpTo(S, n - 1)
         IN  shorter \cup {Append(q, x) : q \in shorter, x \in S}

\* a history of more lines than the default count of history
LongHistory == [i \in 1..(DefaultLines + 2) |-> IF i % 2 = 0 THEN <<"x">> ELSE <<"y">>]

TailFiles ==
    {FileOf(Lines2Data(ls)) : ls \in SeqsUpTo(TailLines, MaxLines) \cup {LongHistory}}

InitTail ==
    /\ InitLauncher
    /\ \E h \in TailFiles :
          ws = [n \in WsNames |->
                  IF n = <<"a">>
                  THEN [dir |-> TRUE, cfg |-> FileOf(NewConfig(n, 1)), hist |-> h]
                  ELSE NoDir]
    /\ rootExists = TRUE
    /\ outsideIntact = TRUE
    /\ now = MaxTime
    /\ pc = [p \in Procs |-> "idle"]
    /\ arg = [p \in Procs |-> <<>>]
    /\ out = [p \in Procs |-> NoOut]
    /\ pre = NoPre

NextTail ==
    \/ \E args \in ArgInputs : View(1, args)
    \/ \E args \in HistoryArgs : History(1, args)

SpecTail == InitTail /\ [][NextTail]_vars

\* the session launcher, one run at a time, over the log directories and
\* the RC file its earlier runs left
InitSession ==
    /\ InitLauncher
    /\ rootExists = FALSE
    /\ outsideIntact = TRUE
    /\ ws = AllGone
    /\ now = 1
    /\ pc = [p \in Procs |-> "idle"]
    /\ arg = [p \in Procs |-> <<>>]
    /\ out = [p \in Procs |-> NoOut]
    /\ pre = NoPre

NextSession ==
    \/ \E tz \in TzInputs, d \in DateInputs, t \in TimeInputs : setupConfig(tz, d, t)
    \/ createRCFile
    \/ \E e \in ShellEnv : runShellStart(e)
    \/ ChildEnds
    \/ runShellWait
    \/ Tick

SpecSession == InitSession /\ [][NextSession]_vars

\* ------------------------------------------------------------------ claims

\* the name is the name of a workspace directory of store st
InStore(st, name) == name \in WsNames /\ st.ws[name].dir

\* process 1 has finished a handler of command c that got past its
\* argument check
Finished(c) == out[1].cmd = c /\ out[1].status \notin {"running", "Usage"}

\* C1: create of a name that is already in the store fails with
\* AlreadyExists and a non-zero exit, and the store after the call is the
\* store before it.
C1_CreateExistingFails ==
    (Finished("create") /\ InStore(pre, out[1].name))
    => /\ out[1].status = "AlreadyExists"
       /\ out[1].exit # 0
       /\ Store = pre

\* a create was refused for a workspace that holds a config and a history
C1_Witness ==
    /\ Finished("create")
    /\ InStore(pre, out[1].name)
    /\ pre.ws[out[1].name].cfg.data # <<>>
    /\ pre.ws[out[1].name].hist.data # <<>>
    /\ out[1].status = "AlreadyExists"

\* C2: delete of a name that is not in the store fails with NotFound and
\* leaves the store unchanged; a confirmed delete of an existing workspace
\* removes it, so that no listing holds its name.
C2_DeleteContract ==
    Finished("delete") =>
       IF ~InStore(pre, out[1].name)
       THEN /\ out[1].status = "NotFound"
            /\ out[1].exit # 0
            /\ Store = pre
       ELSE out[1].status = "ok" =>
               \A recs \in getWorkspaces :
                  \A i \in 1..Len(recs) : recs[i].Name # out[1].name

\* C3: two creates of one name that both passed the existence check never
\* both report the successful creation of the workspace.
C3_NoDoubleSuccess ==
    ~ \E p, q \in Procs :
         /\ p # q
         /\ out[p].cmd = "create" /\ out[q].cmd = "create"
         /\ out[p].name = out[q].name
         /\ out[p].raced /\ out[q].raced
         /\ out[p].status = "ok" /\ out[q].status = "ok"

\* the directory n holds what a create that failed midway left
HalfCreated(n) ==
    /\ Finished("create")
    /\ out[1].name = n
    /\ out[1].status = "IOFailure"
    /\ ~pre.ws[n].dir
    /\ ws[n].dir

\* a listing presents n as a workspace like any other: the Workspace record
\* has no field that could mark it
ListedAsOrdinary(n) ==
    \E recs \in getWorkspaces : \E i \in 1..Len(recs) : recs[i].Name = n

\* C4: a create that made the directory and then failed to write a file
\* reports failure, and the directory it leaves either does not block a
\* later create of the name or is not presented as an ordinary workspace.
C4_NoBlockingHalfCreated ==
    \A n \in WsNames :
       HalfCreated(n) =>
          /\ out[1].exit # 0
          /\ ~(StatOK(JoinBase(n)) /\ ListedAsOrdinary(n))

\* C5: a view that directly follows the successful create of the same name
\* shows the command count 0 and no history line.
C5_ViewAfterCreate ==
    (out[1].cmd = "view" /\ out[1].afterCreate)
    => /\ out[1].status = "ok"
       /\ out[1].commands = <<"0">>
       /\ ~out[1].header
       /\ out[1].shown = <<>>

\* a view directly followed a create, in a store with another workspace
C5_Witness ==
    /\ out[1].cmd = "view"
    /\ out[1].afterCreate
    /\ \E n \in WsNames : n # out[1].name /\ ws[n].dir /\ ws[n].hist.data # <<>>

\* the answers of Responses that are affirmative: yes or y, in either case,
\* with blanks around it
YesAnswers == { <<"y", NL>>, <<" ", "Y", "E", "S", " ", NL>> }

\* C10: a delete of an existing workspace that reads any answer other than
\* an affirmative one cancels with exit code 0 and leaves the store as it
\* was.
C10_CancelKeepsStore ==
    (Finished("delete") /\ InStore(pre, out[1].name) /\ out[1].answer \notin YesAnswers)
    => /\ out[1].status = "Cancelled"
       /\ out[1].exit = 0
       /\ Store = pre

\* a delete of a workspace with a history was cancelled at the end of input
C10_Witness ==
    /\ Finished("delete")
    /\ InStore(pre, out[1].name)
    /\ pre.ws[out[1].name].hist.data # <<>>
    /\ out[1].answer = <<>>
    /\ out[1].status = "Cancelled"

\* the directories of the store
Dirs == {n \in WsNames : ws[n].dir}

\* a value of the config record is a timestamp in the wire format
WellFormedStamp(text) == \E t \in 1..9 : text = FormatRFC3339(t)

\* a value of the config record is a non-negative integer, textual
WellFormedCount(text) ==
    text # <<>> /\ \A i \in 1..Len(text) : text[i] \in Digits

\* the command count the config record of n stands for: its value when it
\* is well formed, 0 when it is absent or malformed
CountOf(n) ==
    LET text == ConfigGet(ws[n].cfg, KeyCommands)
    IN  IF WellFormedCount(text) THEN DigitsValue(text, 0) ELSE 0

\* the creation time the config record of n stands for, the zero time when it
\* is absent or malformed
StampOf(n) ==
    LET text == ConfigGet(ws[n].cfg, KeyCreated)
    IN  IF WellFormedStamp(text) THEN DigitVal(text[2]) ELSE 0

\* C6: list returns one record per workspace directory, newest first, a
\* record with a missing or malformed timestamp carrying the zero time and
\* one with a missing or malformed command count carrying the count 0.
C6_ListContract ==
    Finished("list") =>
       LET recs == out[1].recs
       IN  /\ Len(recs) = Cardinality(Dirs)
           /\ {recs[i].Name : i \in 1..Len(recs)} = Dirs
           /\ \A i, j \in 1..Len(recs) :
                 i < j => recs[i].CreatedAt >= recs[j].CreatedAt
           /\ \A i \in 1..Len(recs) :
                 /\ recs[i].CreatedAt = StampOf(recs[i].Name)
                 /\ recs[i].CommandCount = CountOf(recs[i].Name)

\* the lines of a history file: its text split at the newlines, without the
\* empty element a trailing newline leaves at the end
FileLines(data) ==
    LET parts == Split(data, NL)
    IN  IF parts[Len(parts)] = <<>> THEN SubSeq(parts, 1, Len(parts) - 1) ELSE parts

NonEmpty(ls) == SelectSeq(ls, LAMBDA l : l # <<>>)

\* the last n elements of ls, all of them when there are fewer
LastN(ls, n) ==
    IF n >= Len(ls) THEN ls ELSE SubSeq(ls, Len(ls) - n + 1, Len(ls))

\* the second argument of history is an integer
IsInteger(text) ==
    \/ WellFormedCount(text)
    \/ text # <<>> /\ Head(text) = "-" /\ WellFormedCount(Tail(text))

\* the line count a history call asks for: 20 when none is given
AskedLines(text) ==
    IF text = <<>> THEN 20
    ELSE IF Head(text) = "-" THEN 0 - DigitsValue(Tail(text), 0)
    ELSE DigitsValue(text, 0)

\* C7: history of an existing workspace returns, for every line count n
\* (20 when none is given), the last n lines of the history file in their
\* order, all of them when there are fewer, and the "no history" signal
\* when the history is empty.  The lines are taken as the lines of the file
\* or as its non-empty lines, whichever the output matches.
C7_HistoryLastN ==
    (/\ Finished("history")
     /\ InStore(pre, out[1].name)
     /\ ws[out[1].name].hist.present
     /\ out[1].linesArg = <<>> \/ IsInteger(out[1].linesArg))
    => LET data == ws[out[1].name].hist.data
           n == AskedLines(out[1].linesArg)
       IN  IF data = <<>> THEN out[1].status = "NoHistory"
           ELSE /\ out[1].status = "ok"
                /\ n >= 0 =>
                     \/ out[1].shown = LastN(FileLines(data), n)
                     \/ out[1].shown = LastN(NonEmpty(FileLines(data)), n)

\* C8: view of an existing workspace shows the last min(5, k) of the k
\* non-empty lines of its history, in their order, wherever the blank lines
\* of the file are.
C8_ViewLastFive ==
    (Finished("view") /\ InStore(pre, out[1].name) /\ ws[out[1].name].hist.present)
    => /\ out[1].status = "ok"
       /\ out[1].shown = LastN(NonEmpty(FileLines(ws[out[1].name].hist.data)), 5)

RECURSIVE SumCounts(_)
SumCounts(S) ==
    IF S = {} THEN 0
    ELSE LET n == CHOOSE x \in S : TRUE IN CountOf(n) + SumCounts(S \ {n})

\* the first record of recs whose creation time no other record beats
FirstExtreme(recs, beats(_, _)) ==
    LET best == {i \in 1..Len(recs) :
                    \A j \in 1..Len(recs) : ~beats(recs[j].CreatedAt, recs[i].CreatedAt)}
    IN  recs[CHOOSE i \in best : \A j \in best : i <= j].Name

\* C9: stats over a store without workspaces reports the empty condition;
\* otherwise it reports the number of workspaces, the sum of their command
\* counts (an absent or malformed count as 0), the quotient of the two as
\* the average, and as oldest and newest the first workspaces of its scan
\* with the least and the greatest creation time.
C9_StatsContract ==
    Finished("stats") =>
       IF Dirs = {}
       THEN out[1].status = "Empty" /\ out[1].exit = 0
       ELSE LET st == out[1].stats
                total == SumCounts(Dirs)
                n == Cardinality(Dirs)
            IN  /\ out[1].status = "ok"
                /\ st.workspaces = n
                /\ st.commands = total
                /\ 2 * (st.average * n - 100 * total) <= n
                /\ 2 * (100 * total - st.average * n) <= n
                /\ st.oldest = FirstExtreme(out[1].recs, LAMBDA a, b : a < b)
                /\ st.newest = FirstExtreme(out[1].recs, LAMBDA a, b : a > b)

\* C13: a confirmed delete, whatever name it was given, removes at most the
\* directory of the one workspace of that name: every other workspace is
\* left with its config and its history, and the store's root and the rest
\* of the home directory stay.
C13_DeleteOnlyNamed ==
    (Finished("delete") /\ IsAffirmative(out[1].answer))
    => /\ \A n \in WsNames : n # out[1].name => ws[n] = pre.ws[n]
       /\ rootExists = pre.root
       /\ outsideIntact = pre.outside

\* the launcher's current or last run has called setupConfig
SetupDone == lout.status # "none"

\* C11: setupConfig fails with InvalidTimezone whenever the timezone it is
\* given cannot be resolved, whether or not the date and the time are given
\* too, and then returns no session config and creates no log directory;
\* given no timezone it uses UTC.
C11_InvalidTimezone ==
    /\ (SetupDone /\ ~LoadLocation(lout.tz).ok)
       => /\ lout.status = "InvalidTimezone"
          /\ ~sessionConfig.set
          /\ logDirs = lout.preLogDirs
    /\ (SetupDone /\ lout.tz = <<>> /\ sessionConfig.set)
       => /\ sessionConfig.Timezone = UTC
          /\ lout.date = <<>> => sessionConfig.Date = FormatDate(lout.at, LoadLocation(UTC))
          /\ lout.time = <<>> => sessionConfig.Time = FormatTime(lout.at, LoadLocation(UTC))

\* the launcher's run has ended in runShell
Launched == lpc = "idle" /\ lout.status \in {"ok", "LaunchFailure"}

\* C12: runShell starts at most one child and returns only when that child
\* has ended; a child that exited with a code, zero or not, makes a
\* completed launch whose exit status is that code, and LaunchFailure is
\* reported only for a child that could not be started or was killed.
C12_LaunchPropagates ==
    /\ child.count <= 1
    /\ Launched
       => /\ child.state # "running"
          /\ child.state = "exited"
             => lout.status = "ok" /\ lout.exit = child.code
          /\ lout.status = "ok" => child.count = 1 /\ child.state = "exited"
          /\ lout.status = "LaunchFailure" => child.state \in {"none", "signaled"}

====
